---- MODULE Spec2Model ----
(***************************************************************************)
(* State-machine model of pytop's sampling engine (src/pytop/sysinfo.py):  *)
(* the Cpu, MemInfo, Uptime and LoadAverage samplers, the Process record,  *)
(* the ProcessesController registry, Utility.kb_to_xb, and the refresh of  *)
(* Application (src/src/pytop.py).  Numbers Python holds as floats are     *)
(* modelled as exact rationals <<numerator, denominator>> in lowest terms  *)
(* with a positive denominator, so 75.0 is <<75, 1>> and 0.0 is <<0, 1>>.  *)
(***************************************************************************)
EXTENDS Integers, Sequences, FiniteSets, Bags, TLC

VARIABLES
    prev_stat,      \* Cpu.prev_stat: list of CpuStat rows
    curr_stat,      \* Cpu.curr_stat: list of CpuStat rows
    cpu_result,     \* outcome of the last Cpu call: "ok" or the exception raised
    cpu_call,       \* the last Cpu call: "__init__" or "update"
    stat_source,    \* what /proc/stat held when that call read it
    meminfo,        \* the MemInfo object: its four attributes
    mem_result,     \* outcome of the last MemInfo call: "ok" or the exception
    mem_call,       \* the last MemInfo call: "__init__" or "update"
    mem_source,     \* what /proc/meminfo held when that call read it
    refresh_raised, \* exception raised by the last Application.refresh
                    \* ("no": it returned)
    procfs,         \* the proc folder: entry name -> kind and content
    uptime,         \* Uptime._uptime of the object held in Process._uptime
    total_memory,   \* Process._total_memory
    _processes,     \* ProcessesController._processes: a bag of Process records
                    \* (a Python set of objects compared by identity)
    _previous_procceses,  \* ProcessesController._previous_procceses
    ctl_raised,     \* exception raised by the last ProcessesController.update
                    \* ("no": it returned; "none": the proc folder changed since)
    actual_processes,     \* the set that update enumerated (its local variable)
    vanished,       \* the directories that disappeared during the last update
    before,         \* the registry as the last update found it
    proc,           \* a Process object held by a caller
    proc_dir,       \* the content of its /proc/[pid]/ at its last update()
    proc_raised,    \* exception raised by its last update() ("no": none)
    proc_call,      \* the last call made on it: "__init__" or "update"
    own_uptime,     \* Uptime._uptime of the object passed to the constructor
                    \* of the controller that holds proc
    own_memory,     \* the total memory passed to that constructor
    uptime_holder,  \* whose Uptime object Process._uptime holds: "own" or "other"
    uptime_source,  \* what /proc/uptime held at the last Uptime call
    uptime_result,  \* "ok", or the exception that call raised
    uptime_call,    \* the last Uptime call: "__init__" or "update"
    load_average,   \* LoadAverage._load_average
    load_source,    \* what /proc/loadavg held at the last LoadAverage call
    load_result,    \* "ok", or the exception that call raised
    load_call,      \* the last LoadAverage call: "__init__" or "update"
    kb_arg,         \* the argument of a call of Utility.kb_to_xb
    kb_out          \* what the call returned or raised ("none": not called yet)

cpu_vars == <<prev_stat, curr_stat, cpu_result, cpu_call, stat_source>>

mem_vars == <<meminfo, mem_result, mem_call, mem_source>>

registry_vars == <<procfs, uptime, total_memory, _processes, _previous_procceses,
                   ctl_raised, actual_processes, vanished, before>>

process_vars == <<proc, proc_dir, proc_raised, proc_call>>

shared_vars == <<own_uptime, own_memory, uptime_holder>>

uptime_vars == <<uptime_source, uptime_result, uptime_call>>

load_vars == <<load_average, load_source, load_result, load_call>>

kb_vars == <<kb_arg, kb_out>>

\* the variables of the samplers and helpers apart from Cpu and MemInfo
other_vars == <<shared_vars, uptime_vars, load_vars, kb_vars>>

vars == <<prev_stat, curr_stat, cpu_result, cpu_call, stat_source,
          meminfo, mem_result, mem_call, mem_source, refresh_raised, procfs, uptime, total_memory,
          _processes, _previous_procceses, ctl_raised, actual_processes, vanished,
          before, proc, proc_dir, proc_raised, proc_call,
          own_uptime, own_memory, uptime_holder,
          uptime_source, uptime_result, uptime_call,
          load_average, load_source, load_result, load_call, kb_arg, kb_out>>

-----------------------------------------------------------------------------
(* Bounds *)

\* largest number of words in /proc/loadavg
MaxLoadWords == 4

\* largest distance in kB of an argument of kb_to_xb from a multiple of 1024
MaxKbDelta == 2

\* largest number of ticks a single per-core row of /proc/stat carries
MaxTick == 4

\* largest number of per-core rows of /proc/stat
MaxCores == 2

\* process ids run from 1 to MaxPid
MaxPid == 2

\* largest tick count of a process's stat record
MaxProcTick == 2

\* largest value read from /proc/uptime
MaxUptime == 2

\* largest MemTotal value
MaxMem == 2

\* largest number of Process records the registry is run up to
MaxObjects == 3

-----------------------------------------------------------------------------
(* Rationals *)

Abs(n) == IF n < 0 THEN -n ELSE n

RECURSIVE GCD(_, _)
GCD(a, b) == IF b = 0 THEN a ELSE GCD(b, a % b)

\* n / d (d # 0) as a fraction in lowest terms with a positive denominator
Ratio(n, d) ==
    LET g == GCD(Abs(n), Abs(d))
        s == IF d < 0 THEN -1 ELSE 1
    IN  <<(s * n) \div g, (s * d) \div g>>

RatZero == Ratio(0, 1)

RatIsNeg(q) == q[1] < 0

-----------------------------------------------------------------------------
(* /proc/stat and the Cpu sampler *)

\* the ten counters of Cpu.CpuStat, after the 'name' field
CpuStatFields ==
    {"user", "nice", "system", "idle", "iowait",
     "irq", "softirq", "steal", "guest", "guest_nice"}

ZeroRow == [f \in CpuStatFields |-> 0]

\* a row with w idle ticks and v ticks of counter f
RowOf(w, f, v) == [ZeroRow EXCEPT ![f] = v, !["idle"] = IF f = "idle" THEN v ELSE w]

\* Per-core rows read from /proc/stat: idle ticks plus at most one other
\* non-zero counter, at most MaxTick ticks in all.
RichRows ==
    UNION {{RowOf(w, f, v) : f \in CpuStatFields \ {"idle"}, v \in 0..(MaxTick - w)} :
            w \in 0..MaxTick}

\* Rows of the multi-core samples: no tick, one user tick or one idle tick.
UnitRows == {ZeroRow, RowOf(0, "user", 1), RowOf(1, "user", 0)}

RECURSIVE SeqsOfLen(_, _)
SeqsOfLen(S, n) ==
    IF n = 0 THEN {<<>>}
    ELSE {Append(s, x) : s \in SeqsOfLen(S, n - 1), x \in S}

\* The per-core rows of one reading of /proc/stat, in file order.
CoreSamples ==
    {<<r>> : r \in RichRows} \cup UNION {SeqsOfLen(UnitRows, n) : n \in 2..MaxCores}

\* A /proc/stat file: the aggregate 'cpu ' line, one 'cpuN' line per core and
\* the lines that follow them ('intr ...').
SumRows(rows) ==
    [f \in CpuStatFields |->
        LET RECURSIVE Add(_)
            Add(i) == IF i = 0 THEN 0 ELSE rows[i][f] + Add(i - 1)
        IN  Add(Len(rows))]

StatFile(rows) ==
    <<[tag |-> "cpu ", name |-> -1, vals |-> SumRows(rows)]>>
    \o [i \in 1..Len(rows) |-> [tag |-> "cpuN", name |-> i - 1, vals |-> rows[i]]]
    \o <<[tag |-> "intr", name |-> -1, vals |-> ZeroRow]>>

\* what open('/proc/stat') can yield: the lines of the file, or an I/O error
Unreadable == [readable |-> FALSE, lines |-> <<>>]

StatSources ==
    {[readable |-> TRUE, lines |-> StatFile(rows)] : rows \in CoreSamples \cup {<<>>}}
    \cup {Unreadable}

\* Cpu.CpuStat(name, *values)
CpuStat(line) == [f \in CpuStatFields \cup {"name"} |->
                    IF f = "name" THEN line.name ELSE line.vals[f]]

\* Cpu._read_file with the aggregate 'cpu ' line taken as a row too
Cpu_read_file_with_aggregate(source) ==
    IF ~source.readable THEN [raised |-> "OSError", lst |-> <<>>]
    ELSE LET lines == SelectSeq(source.lines, LAMBDA l : l.tag \in {"cpu ", "cpuN"})
             lst == [i \in 1..Len(lines) |-> CpuStat(lines[i])]
         IN  IF lst = <<>> THEN [raised |-> "SystemInfoError", lst |-> <<>>]
             ELSE [raised |-> "no", lst |-> lst]

\* Cpu._read_file: the rows of the lines that start with 'cpu' but not with
\* 'cpu '; raises when the file cannot be opened or no such line exists.
Cpu_read_file(source) ==
    IF ~source.readable THEN [raised |-> "OSError", lst |-> <<>>]
    ELSE LET lines == SelectSeq(source.lines, LAMBDA l : l.tag = "cpuN")
             lst == [i \in 1..Len(lines) |-> CpuStat(lines[i])]
         IN  IF lst = <<>> THEN [raised |-> "SystemInfoError", lst |-> <<>>]
             ELSE [raised |-> "no", lst |-> lst]

\* Cpu._read_file over a set of sources: each source with its outcome
ReadingsOf(sources) ==
    {[source |-> source, raised |-> Cpu_read_file(source).raised,
      lst |-> Cpu_read_file(source).lst] : source \in sources}

\* every outcome of Cpu._read_file over the sources
StatReadings == ReadingsOf(StatSources)

\* the loop body with guest and guest_nice counted as busy time
cpu_usage_pct_with_guest(prev, new) ==
    LET idle_prev == prev.idle + prev.iowait
        total_prev == idle_prev + prev.user + prev.nice + prev.system + prev.irq
                      + prev.softirq + prev.steal + prev.guest + prev.guest_nice
        idle_new == new.idle + new.iowait
        total_new == idle_new + new.user + new.nice + new.system + new.irq
                     + new.softirq + new.steal + new.guest + new.guest_nice
        total_diff == total_new - total_prev
        idle_diff == idle_new - idle_prev
    IN  IF total_diff <= 0 THEN RatZero
        ELSE Ratio((total_diff - idle_diff) * 100, total_diff)

\* the loop body with only an unchanged total reported as 0.0
cpu_usage_pct_zero_only(prev, new) ==
    LET idle_prev == prev.idle + prev.iowait
        total_prev == idle_prev + prev.user + prev.nice + prev.system + prev.irq
                      + prev.softirq + prev.steal
        idle_new == new.idle + new.iowait
        total_new == idle_new + new.user + new.nice + new.system + new.irq
                     + new.softirq + new.steal
        total_diff == total_new - total_prev
        idle_diff == idle_new - idle_prev
    IN  IF total_diff = 0 THEN RatZero
        ELSE Ratio((total_diff - idle_diff) * 100, total_diff)

\* one iteration of the loop of Cpu.cpu_usage
cpu_usage_pct(prev, new) ==
    LET idle_prev == prev.idle + prev.iowait
        non_idle_prev == prev.user + prev.nice + prev.system + prev.irq
                         + prev.softirq + prev.steal
        total_prev == idle_prev + non_idle_prev
        idle_new == new.idle + new.iowait
        non_idle_new == new.user + new.nice + new.system + new.irq
                        + new.softirq + new.steal
        total_new == idle_new + non_idle_new
        total_diff == total_new - total_prev
        idle_diff == idle_new - idle_prev
    IN  IF total_diff <= 0 THEN RatZero
        ELSE Ratio((total_diff - idle_diff) * 100, total_diff)

Min(a, b) == IF a < b THEN a ELSE b

\* Cpu.cpu_usage: zip(prev_stat, curr_stat) stops at the shorter list
Cpu_cpu_usage(prev, curr) ==
    [i \in 1..Min(Len(prev), Len(curr)) |-> cpu_usage_pct(prev[i], curr[i])]

cpu_usage == Cpu_cpu_usage(prev_stat, curr_stat)

-----------------------------------------------------------------------------
(* /proc/[pid]/ and the Process record *)

\* os.sysconf('SC_CLK_TCK'), read once into Process._clock_ticks_per_second
ClockTicksPerSecond == 100

\* the PF_KTHREAD bit tested on field 9 of /proc/[pid]/stat
PF_KTHREAD == 2097152

\* Python's None, for the attributes that hold a string otherwise (a value
\* that is no string of characters)
None == <<"None">>

\* Python's None / a value, for the attributes that hold a number otherwise
NoneNum == <<>>
Some(v) == <<v>>
ValueOf(opt) == opt[1]

\* Strings are sequences of characters; NUL is the byte '\x00'.
NUL == "\\x00"
Whitespace == {" ", "\t", "\n"}

RECURSIVE rstrip(_)
rstrip(string) ==
    IF string # <<>> /\ string[Len(string)] \in Whitespace
    THEN rstrip(SubSeq(string, 1, Len(string) - 1))
    ELSE string

\* Process._remove_whitespaces: string.replace('\x00', ' ').rstrip()
Process_remove_whitespaces(string) ==
    rstrip([i \in 1..Len(string) |-> IF string[i] = NUL THEN " " ELSE string[i]])

\* Process.__init__ up to its call of update()
Process_new(pid) ==
    [pid |-> pid, user |-> None, priority |-> None, niceness |-> None,
     virtual_memory |-> 0, resident_memory |-> 0, shared_memory |-> 0,
     state |-> None, cpu_usage |-> RatZero, memory_usage |-> RatZero,
     _time |-> RatZero, command |-> <<>>,
     _time_ticks_old |-> NoneNum, _uptime_old |-> NoneNum, kthread |-> FALSE]

\* The result of a method: the exception it raised ("no" when it returned)
\* and the object as the method left it.
Returned(self) == [raised |-> "no", self |-> self]
Raised(exc, self) == [raised |-> exc, self |-> self]

\* Process._read_cmdline; dir is the content of /proc/[pid]/, dir.exists is
\* FALSE when the directory is gone and open() raises FileNotFoundError.
Process_read_cmdline(self, dir) ==
    IF ~dir.exists THEN Raised("FileNotFoundError", self)
    ELSE Returned([self EXCEPT !.command = Process_remove_whitespaces(dir.cmdline)])

Digits == <<"0", "1", "2", "3", "4", "5", "6", "7", "8", "9">>

\* str.isdigit(): not empty and every character a digit
isdigit(name) ==
    /\ name # <<>>
    /\ \A i \in 1..Len(name) : \E d \in 1..Len(Digits) : name[i] = Digits[d]

DigitValue(c) == (CHOOSE d \in 1..Len(Digits) : Digits[d] = c) - 1

\* int(name) of a string of digits
RECURSIVE int(_)
int(name) ==
    IF name = <<>> THEN 0
    ELSE 10 * int(SubSeq(name, 1, Len(name) - 1)) + DigitValue(name[Len(name)])

\* str.split(): the words of a text, separated by runs of whitespace
RECURSIVE split_from(_, _, _, _)
split_from(text, i, word, words) ==
    IF i > Len(text) THEN (IF word = <<>> THEN words ELSE Append(words, word))
    ELSE IF text[i] \in Whitespace
    THEN split_from(text, i + 1, <<>>, IF word = <<>> THEN words ELSE Append(words, word))
    ELSE split_from(text, i + 1, Append(word, text[i]), words)

split(text) == split_from(text, 1, <<>>, <<>>)

\* str(n) of an integer: its decimal digits, after '-' when it is negative
RECURSIVE str(_)
str(n) ==
    IF n < 0 THEN <<"-">> \o str(-n)
    ELSE IF n < 10 THEN <<Digits[n + 1]>>
    ELSE Append(str(n \div 10), Digits[(n % 10) + 1])

\* int(word) returns for a word of digits with an optional sign, and raises
\* ValueError for any other word
IsIntLiteral(word) ==
    /\ word # <<>>
    /\ isdigit(IF word[1] \in {"-", "+"} THEN Tail(word) ELSE word)

IntOf(word) ==
    IF word[1] = "-" THEN 0 - int(Tail(word))
    ELSE IF word[1] = "+" THEN int(Tail(word))
    ELSE int(word)

\* The text of /proc/[pid]/stat as file.read().split() returns it: the pid,
\* the name in parentheses (one word for every word of the name), the state
\* and the numeric fields 4 to 20 of proc(5), of which the model sets flags
\* (9), utime to cstime (14-17), priority (18) and nice (19).  stat.fault
\* names what is wrong with the record: "IndexError" is an empty file,
\* "ValueError" a utime field that is no integer.
StatWords(stat) ==
    IF stat.fault = "IndexError" THEN <<>>
    ELSE <<str(1)>> \o split(stat.comm) \o <<<<"S">>>>
         \o <<str(0), str(0), str(0), str(0), str(0)>>
         \o <<str(stat.flags)>>
         \o <<str(0), str(0), str(0), str(0)>>
         \o <<IF stat.fault = "ValueError" THEN <<"x">> ELSE str(stat.utime)>>
         \o <<str(stat.stime), str(stat.cutime), str(stat.cstime)>>
         \o <<str(stat.priority), str(stat.niceness), str(1)>>

\* Process._read_stat from the list of words to the conversion of the tick
\* fields.  values[k] of the code is words[k], since values[0] is the word
\* 'Reserved'.  Every assignment made before an exception stays.
Process_parse_stat(self, words) ==
    LET n == Len(words)
        Bad(k) == ~IsIntLiteral(words[k])
        Fail(exc, obj) == [raised |-> exc, self |-> obj, time_ticks |-> 0,
                           process_time_ticks |-> 0]
    IN
    IF self.command = <<>> /\ n < 2 THEN Fail("IndexError", self)
    ELSE
      LET s1 == [self EXCEPT !.command =
                    IF @ = <<>>
                    THEN Process_remove_whitespaces(SubSeq(words[2], 2, Len(words[2]) - 1))
                    ELSE @]
      IN  IF n < 9 THEN Fail("IndexError", s1)
          ELSE IF Bad(9) THEN Fail("ValueError", s1)
          ELSE IF n < 18
          THEN Fail("IndexError", [s1 EXCEPT
                        !.kthread = (IntOf(words[9]) \div PF_KTHREAD) % 2 = 1])
          ELSE IF n < 19
          THEN Fail("IndexError", [s1 EXCEPT
                        !.kthread = (IntOf(words[9]) \div PF_KTHREAD) % 2 = 1,
                        !.priority = words[18]])
          ELSE
            [raised |-> IF \E k \in 14..17 : Bad(k) THEN "ValueError" ELSE "no",
             self |-> [s1 EXCEPT
                        !.kthread = (IntOf(words[9]) \div PF_KTHREAD) % 2 = 1,
                        !.priority = words[18],
                        !.niceness = words[19]],
             time_ticks |-> IF \E k \in 14..17 : Bad(k) THEN 0
                            ELSE IntOf(words[14]) + IntOf(words[15])
                                 + IntOf(words[16]) + IntOf(words[17]),
             process_time_ticks |-> IF \E k \in 14..15 : Bad(k) THEN 0
                                    ELSE IntOf(words[14]) + IntOf(words[15])]

\* Process._read_stat up to the conversion of the tick fields
Process_read_stat_fields(self, dir) ==
    IF ~dir.exists
    THEN [raised |-> "FileNotFoundError", self |-> self, time_ticks |-> 0,
          process_time_ticks |-> 0]
    ELSE Process_parse_stat(self, StatWords(dir.stat))

\* the rest of Process._read_stat with the two baselines started at zero
\* instead of at the values just read
Process_usage_zero_baseline(f, uptime_now) ==
    LET ticks_old == IF f.self._time_ticks_old = NoneNum THEN 0
                     ELSE ValueOf(f.self._time_ticks_old)
        up_old == IF f.self._uptime_old = NoneNum THEN 0
                  ELSE ValueOf(f.self._uptime_old)
    IN  IF f.raised # "no" THEN Raised(f.raised, f.self)
        ELSE Returned([f.self EXCEPT
                !.cpu_usage = IF uptime_now - up_old <= 0 THEN RatZero
                              ELSE Ratio(100 * (f.time_ticks - ticks_old),
                                         ClockTicksPerSecond * (uptime_now - up_old)),
                !._time_ticks_old = Some(f.time_ticks),
                !._uptime_old = Some(uptime_now),
                !._time = Ratio(f.process_time_ticks, ClockTicksPerSecond)])

\* Process._read_stat with the two baselines started at zero
Process_read_stat_zero_baseline(self, dir, uptime_now) ==
    Process_usage_zero_baseline(Process_read_stat_fields(self, dir), uptime_now)

\* the rest of Process._read_stat with the two baselines kept at the first
\* observation
Process_usage_first_baseline(f, uptime_now) ==
    LET ticks_old == IF f.self._time_ticks_old = NoneNum THEN f.time_ticks
                     ELSE ValueOf(f.self._time_ticks_old)
        up_old == IF f.self._uptime_old = NoneNum THEN uptime_now
                  ELSE ValueOf(f.self._uptime_old)
    IN  IF f.raised # "no" THEN Raised(f.raised, f.self)
        ELSE Returned([f.self EXCEPT
                !.cpu_usage = IF uptime_now - up_old <= 0 THEN RatZero
                              ELSE Ratio(100 * (f.time_ticks - ticks_old),
                                         ClockTicksPerSecond * (uptime_now - up_old)),
                !._time_ticks_old = Some(ticks_old),
                !._uptime_old = Some(up_old),
                !._time = Ratio(f.process_time_ticks, ClockTicksPerSecond)])

\* Process._read_stat with the two baselines kept at the first observation
Process_read_stat_first_baseline(self, dir, uptime_now) ==
    Process_usage_first_baseline(Process_read_stat_fields(self, dir), uptime_now)

\* The rest of Process._read_stat: the usage since the baselines of this
\* object, which then become the values just read.
Process_usage(f, uptime_now) ==
    LET ticks_old == IF f.self._time_ticks_old = NoneNum THEN f.time_ticks
                     ELSE ValueOf(f.self._time_ticks_old)
        up_old == IF f.self._uptime_old = NoneNum THEN uptime_now
                  ELSE ValueOf(f.self._uptime_old)
    IN  IF f.raised # "no" THEN Raised(f.raised, f.self)
        ELSE Returned([f.self EXCEPT
                !.cpu_usage = IF uptime_now - up_old <= 0 THEN RatZero
                              ELSE Ratio(100 * (f.time_ticks - ticks_old),
                                         ClockTicksPerSecond * (uptime_now - up_old)),
                !._time_ticks_old = Some(f.time_ticks),
                !._uptime_old = Some(uptime_now),
                !._time = Ratio(f.process_time_ticks, ClockTicksPerSecond)])

\* Process._read_stat
Process_read_stat(self, dir, uptime_now) ==
    Process_usage(Process_read_stat_fields(self, dir), uptime_now)

\* round(n / d, 1) for d > 0: the nearest tenth, ties to the even tenth
Round1(n, d) ==
    LET q == (10 * n) \div d
        r == (10 * n) % d
        k == IF 2 * r > d \/ (2 * r = d /\ q % 2 = 1) THEN q + 1 ELSE q
    IN  Ratio(k, 10)

\* status.get(name, 0)
StatusGet(fields, name) == IF name \in DOMAIN fields THEN fields[name] ELSE 0

\* Process._read_status.  status.fields maps the names of the lines of the
\* record to their values: the text after the colon for Name, of which
\* temp[1] is the first word, and the first word itself for the other
\* lines; status.fault is "IndexError" for a line without a
\* value and "ValueError" for a non-integer Uid/Vm* value, both raised while
\* the lines are read.  The division by a total memory of 0 raises
\* ZeroDivisionError after the memory attributes are assigned.
Process_read_status(self, dir, total_memory_now) ==
    LET status == dir.status
        fields == status.fields
    IN
    IF ~dir.exists THEN Raised("FileNotFoundError", self)
    ELSE IF status.fault # "none" THEN Raised(status.fault, self)
    ELSE IF "Name" \in DOMAIN fields /\ split(fields["Name"]) = <<>>
         THEN Raised("IndexError", self)
    ELSE IF self.command = <<>> /\ "Name" \notin DOMAIN fields
         THEN Raised("KeyError", self)
    ELSE
      LET s1 == [self EXCEPT !.command = IF @ = <<>> THEN split(fields["Name"])[1] ELSE @]
      IN  IF "State" \notin DOMAIN fields THEN Raised("KeyError", s1)
          ELSE
            LET s2 == [s1 EXCEPT !.state = fields["State"]]
            IN  IF "Uid" \notin DOMAIN fields THEN Raised("KeyError", s2)
                ELSE
                  LET s3 == [s2 EXCEPT
                                !.virtual_memory = StatusGet(fields, "VmSize"),
                                !.resident_memory = StatusGet(fields, "VmRSS"),
                                !.shared_memory = StatusGet(fields, "RssShmem")]
                  IN  IF total_memory_now = 0 THEN Raised("ZeroDivisionError", s3)
                      ELSE Returned([s3 EXCEPT !.memory_usage =
                                    Round1(s3.resident_memory * 100, total_memory_now)])

\* Process.update: ValueError and IndexError become SystemInfoError, every
\* other exception propagates unchanged.
Process_update(self, dir, uptime_now, total_memory_now) ==
    LET Wrap(r) == IF r.raised \in {"ValueError", "IndexError"}
                   THEN Raised("SystemInfoError", r.self) ELSE r
        r1 == Process_read_cmdline(self, dir)
        r2 == Process_read_stat(r1.self, dir, uptime_now)
        r3 == Process_read_status(r2.self, dir, total_memory_now)
    IN  IF r1.raised # "no" THEN Wrap(r1)
        ELSE IF r2.raised # "no" THEN Wrap(r2)
        ELSE Wrap(r3)

\* Process(pid): __init__ ends with update()
Process_init(pid, dir, uptime_now, total_memory_now) ==
    Process_update(Process_new(pid), dir, uptime_now, total_memory_now)

-----------------------------------------------------------------------------
(* /proc/uptime, /proc/loadavg and the Uptime and LoadAverage samplers *)

\* a text file: its content as a string, or an I/O error of open()
TextFile(text) == [readable |-> TRUE, text |-> text]
NoFile == [readable |-> FALSE, text |-> <<>>]

\* the given words in one line, separated by single blanks
RECURSIVE Line(_)
Line(words) ==
    IF words = <<>> THEN <<"\n">>
    ELSE IF Len(words) = 1 THEN words[1] \o <<"\n">>
    ELSE words[1] \o <<" ">> \o Line(Tail(words))

\* a word without its sign
Unsigned(word) ==
    IF word # <<>> /\ word[1] \in {"-", "+"} THEN Tail(word) ELSE word

\* digits with at most one decimal point and a digit on one side of it
IsDecimal(u) ==
    \/ isdigit(u)
    \/ \E i \in 1..Len(u) :
        /\ u[i] = "."
        /\ Len(u) > 1
        /\ i = 1 \/ isdigit(SubSeq(u, 1, i - 1))
        /\ i = Len(u) \/ isdigit(SubSeq(u, i + 1, Len(u)))

\* the words that float() accepts: a decimal number, inf or nan, with an
\* optional sign (exponents, underscores and capitals are left out of the
\* words of the model)
IsFloatLiteral(word) ==
    \/ IsDecimal(Unsigned(word))
    \/ Unsigned(word) \in {<<"i", "n", "f">>, <<"n", "a", "n">>}

\* the value of a decimal number without sign, as a fraction
DecimalValue(u) ==
    IF isdigit(u) THEN Ratio(int(u), 1)
    ELSE LET i == CHOOSE k \in 1..Len(u) : u[k] = "."
         IN  Ratio(int(SubSeq(u, 1, i - 1)) * 10 ^ (Len(u) - i)
                        + int(SubSeq(u, i + 1, Len(u))),
                   10 ^ (Len(u) - i))

\* the floats that are no number and no finite number
NaN == <<0, 0>>
Infinity == <<1, 0>>
MinusInfinity == <<-1, 0>>

\* float(word) of a word that float() accepts, as a fraction
float(word) ==
    IF Unsigned(word) = <<"n", "a", "n">> THEN NaN
    ELSE IF Unsigned(word) = <<"i", "n", "f">>
    THEN (IF word[1] = "-" THEN MinusInfinity ELSE Infinity)
    ELSE IF word[1] = "-"
    THEN <<0 - DecimalValue(Unsigned(word))[1], DecimalValue(Unsigned(word))[2]>>
    ELSE DecimalValue(Unsigned(word))

\* int(x) of a finite float: the fraction is dropped, towards zero
Truncate(q) == IF q[1] < 0 THEN 0 - ((0 - q[1]) \div q[2]) ELSE q[1] \div q[2]

\* Uptime._read_file: int(float(first word)).  No word raises IndexError,
\* a word that float() rejects ValueError, int(nan) ValueError, all three
\* turned into SystemInfoError; int(inf) raises OverflowError, which passes.
Uptime_read_file(source) ==
    IF ~source.readable THEN [raised |-> "OSError", value |-> 0]
    ELSE IF split(source.text) = <<>> \/ ~IsFloatLiteral(split(source.text)[1])
    THEN [raised |-> "SystemInfoError", value |-> 0]
    ELSE IF float(split(source.text)[1]) = NaN
    THEN [raised |-> "SystemInfoError", value |-> 0]
    ELSE IF float(split(source.text)[1]) \in {Infinity, MinusInfinity}
    THEN [raised |-> "OverflowError", value |-> 0]
    ELSE [raised |-> "no", value |-> Truncate(float(split(source.text)[1]))]

\* LoadAverage._read_file of a list of words, taking the last three words
LoadAverage_parse_last_three(words) ==
    IF Len(words) < 3 \/ \E k \in 1..3 : ~IsFloatLiteral(words[Len(words) - 3 + k])
    THEN [raised |-> "SystemInfoError", value |-> <<>>]
    ELSE [raised |-> "no", value |-> [k \in 1..3 |-> float(words[Len(words) - 3 + k])]]

\* LoadAverage._read_file of a list of words: t1, t5, t15, *_ = words raises
\* ValueError for fewer than three words, float() for a word it rejects
LoadAverage_parse(words) ==
    IF Len(words) < 3 \/ \E k \in 1..3 : ~IsFloatLiteral(words[k])
    THEN [raised |-> "SystemInfoError", value |-> <<>>]
    ELSE [raised |-> "no", value |-> [k \in 1..3 |-> float(words[k])]]

\* LoadAverage._read_file
LoadAverage_read_file(source) ==
    IF ~source.readable THEN [raised |-> "OSError", value |-> <<>>]
    ELSE LoadAverage_parse(split(source.text))

\* Uptime.update and LoadAverage.update with the stored value reset before
\* the file is read
Sampler_update_resetting(stored, r) == r.value

\* Uptime.update and LoadAverage.update: the attribute is assigned after
\* _read_file returned, so a call that raises leaves it as it was
Sampler_update(stored, r) == IF r.raised = "no" THEN r.value ELSE stored

-----------------------------------------------------------------------------
(* Utility.kb_to_xb *)

\* Utility.kb_to_xb with the quotients rounded to the nearest unit
Utility_kb_to_xb_rounding(kb) ==
    IF kb.type # "int" THEN Raised("TypeError", <<>>)
    ELSE IF kb.value < 100 * 1024 THEN Returned(str(kb.value))
    ELSE IF kb.value < 1024 * 1024
    THEN Returned(Append(str((kb.value + 512) \div 1024), "M"))
    ELSE Returned(Append(str((kb.value + 512 * 1024) \div (1024 * 1024)), "G"))

\* Utility.kb_to_xb; kb is the argument with its Python type, the result
\* holds the returned string in `self`
Utility_kb_to_xb(kb) ==
    IF kb.type # "int" THEN Raised("TypeError", <<>>)
    ELSE IF kb.value < 100 * 1024 THEN Returned(str(kb.value))
    ELSE IF kb.value < 1024 * 1024
    THEN Returned(Append(str(kb.value \div 1024), "M"))
    ELSE Returned(Append(str(kb.value \div (1024 * 1024)), "G"))

-----------------------------------------------------------------------------
(* /proc/meminfo and the MemInfo sampler *)

\* meaningful_fields of MemInfo._read_file, in the order of the file
meaningful_fields ==
    <<"MemTotal", "MemFree", "Buffers", "Cached", "SReclaimable",
      "Shmem", "SwapTotal", "SwapFree">>

MeaningfulNames == {meaningful_fields[i] : i \in 1..Len(meaningful_fields)}

\* A line of /proc/meminfo: `name` is its first word without its last
\* character, `value` its second word.  form is "short" for a line of fewer
\* than two words and "nonint" for one whose second word is no integer.
\* unit holds the words after the second (*unit of the code): <<"kB">> as
\* the kernel writes it, <<>> for a line without a unit suffix.
MemLineIn(name, value, form, unit) ==
    [name |-> name, value |-> value, form |-> form, unit |-> unit]

MemLine(name, value, form) == MemLineIn(name, value, form, <<"kB">>)

\* the lines of the fields that a file reports, in file order
FieldLines(fields) ==
    LET present == SelectSeq(meaningful_fields, LAMBDA n : n \in DOMAIN fields)
    IN  [i \in 1..Len(present) |-> MemLine(present[i], fields[present[i]], "ok")]

\* a /proc/meminfo file: the lines of its fields, a line of a field that is
\* not a meaningful one, and the lines `extra`
MemFile(fields, extra) ==
    [readable |-> TRUE,
     lines |-> FieldLines(fields) \o <<MemLine("MemAvailable", 1, "ok")>> \o extra]

\* the eight fields with MemTotal = total, field f = v and 0 elsewhere
MemRow(total, f, v) ==
    [n \in MeaningfulNames |-> IF n = f THEN v ELSE IF n = "MemTotal" THEN total ELSE 0]

\* the fields of a file without the line of field g
Without(fields, g) == [n \in DOMAIN fields \ {g} |-> fields[n]]

\* complete files: any MemTotal and at most one other non-zero field
CompleteMem ==
    {MemRow(t, f, v) : t \in 0..MaxMem, f \in MeaningfulNames \ {"MemTotal"},
                       v \in 0..MaxMem}

\* files that lack one of the eight fields, and the empty file
PartialMem ==
    {Without(m, g) : m \in {MemRow(MaxMem, "Shmem", 1), MemRow(0, "SwapTotal", MaxMem)},
                     g \in MeaningfulNames}

\* the file of the given fields with every field line stated in `unit`
MemFileIn(fields, unit) ==
    [readable |-> TRUE,
     lines |-> [i \in 1..Len(FieldLines(fields)) |->
                    [FieldLines(fields)[i] EXCEPT !.unit = unit]]]

\* one mebibyte of memory and of swap stated in kilobytes, without a unit
\* suffix, and in megabytes
UnitMem ==
    {MemFileIn(MemRow(1024, "SwapTotal", 1024), <<"kB">>),
     MemFileIn(MemRow(1024, "SwapTotal", 1024), <<>>),
     MemFileIn(MemRow(1, "SwapTotal", 1), <<"MB">>)}

\* what open('/proc/meminfo') can yield
MemSources ==
    {MemFile(m, <<>>) : m \in CompleteMem \cup PartialMem}
    \cup UnitMem
    \cup {MemFile(MemRow(MaxMem, "MemFree", 1), <<l>>) :
            l \in {MemLine("", 0, "short"), MemLine("Cached", 0, "nonint"),
                   MemLine("HugePages_Total", 0, "nonint")}}
    \cup {[readable |-> TRUE, lines |-> <<>>], Unreadable}

\* the loop of MemInfo._read_file from line i on: a line that does not split
\* into two words, or a meaningful field whose value is no integer, raises
RECURSIVE MemInfo_read_lines(_, _, _)
MemInfo_read_lines(lines, i, values) ==
    IF i > Len(lines) THEN [raised |-> "no", values |-> values]
    ELSE LET line == lines[i] IN
         IF line.form = "short"
         THEN [raised |-> "SystemInfoError", values |-> values]
         ELSE IF line.name \notin MeaningfulNames
         THEN MemInfo_read_lines(lines, i + 1, values)
         ELSE IF line.form = "nonint"
         THEN [raised |-> "SystemInfoError", values |-> values]
         ELSE MemInfo_read_lines(lines, i + 1, (line.name :> line.value) @@ values)

\* MemInfo._read_file: the dict of the meaningful fields found in the file
MemInfo_read_file(source) ==
    IF ~source.readable THEN [raised |-> "OSError", values |-> <<>>]
    ELSE MemInfo_read_lines(source.lines, 1, <<>>)

\* MemInfo.__init__ up to its call of update()
MemInfo_new ==
    [_total_memory |-> NoneNum, _used_memory |-> NoneNum,
     _total_swap |-> NoneNum, _used_swap |-> NoneNum]

\* MemInfo.update with a missing Shmem read as 0
MemInfo_update_default_shmem(self, source) ==
    LET r == MemInfo_read_file(source)
        info == r.values
        Get(n) == IF n \in DOMAIN info THEN info[n] ELSE 0
    IN  IF r.raised # "no" THEN Raised(r.raised, self)
        ELSE IF ~((MeaningfulNames \ {"Shmem"}) \subseteq DOMAIN info)
        THEN Raised("SystemInfoError", self)
        ELSE Returned([_total_memory |-> Some(info["MemTotal"]),
                       _used_memory |-> Some(info["MemTotal"] - info["MemFree"]
                            - info["Buffers"] - info["Cached"]
                            - info["SReclaimable"] + Get("Shmem")),
                       _total_swap |-> Some(info["SwapTotal"]),
                       _used_swap |-> Some(info["SwapTotal"] - info["SwapFree"])])

\* MemInfo.update with used_memory clamped at zero
MemInfo_update_clamped(self, source) ==
    LET r == MemInfo_read_file(source)
        info == r.values
        used == info["MemTotal"] - info["MemFree"] - info["Buffers"] - info["Cached"]
                - info["SReclaimable"] + info["Shmem"]
    IN  IF r.raised # "no" THEN Raised(r.raised, self)
        ELSE IF ~(MeaningfulNames \subseteq DOMAIN info)
        THEN Raised("SystemInfoError", self)
        ELSE Returned([_total_memory |-> Some(info["MemTotal"]),
                       _used_memory |-> Some(IF used < 0 THEN 0 ELSE used),
                       _total_swap |-> Some(info["SwapTotal"]),
                       _used_swap |-> Some(info["SwapTotal"] - info["SwapFree"])])

\* MemInfo.update: the attributes are assigned one after the other inside the
\* try block, so the assignments made before the first missing key stay.
MemInfo_update(self, source) ==
    LET r == MemInfo_read_file(source)
        info == r.values
        Has(names) == names \subseteq DOMAIN info
    IN  IF r.raised # "no" THEN Raised(r.raised, self)
        ELSE IF ~Has({"MemTotal"}) THEN Raised("SystemInfoError", self)
        ELSE
          LET s1 == [self EXCEPT !._total_memory = Some(info["MemTotal"])]
          IN  IF ~Has({"MemFree", "Buffers", "Cached", "SReclaimable", "Shmem"})
              THEN Raised("SystemInfoError", s1)
              ELSE
                LET used_memory == info["MemTotal"] - info["MemFree"] - info["Buffers"]
                                   - info["Cached"] - info["SReclaimable"] + info["Shmem"]
                    s2 == [s1 EXCEPT !._used_memory = Some(used_memory)]
                IN  IF ~Has({"SwapTotal"}) THEN Raised("SystemInfoError", s2)
                    ELSE
                      LET s3 == [s2 EXCEPT !._total_swap = Some(info["SwapTotal"])]
                      IN  IF ~Has({"SwapFree"}) THEN Raised("SystemInfoError", s3)
                          ELSE Returned([s3 EXCEPT !._used_swap =
                                    Some(info["SwapTotal"] - info["SwapFree"])])

\* MemInfo(): __init__ ends with update()
MemInfo_init(source) == MemInfo_update(MemInfo_new, source)

-----------------------------------------------------------------------------
(* The /proc directory and the ProcessesController registry *)

\* the directory name of process n (n < 10)
PidName(n) == <<Digits[n + 1]>>

PidNames == {PidName(n) : n \in 1..MaxPid}

\* entries of the proc folder that are no process directory: a directory
\* whose name is not a number and a regular file whose name is one
SelfName == <<"s", "e", "l", "f">>
FileName == <<"9", "9">>

EntryNames == PidNames \cup {SelfName, FileName}

\* The content of a process directory whose stat record carries `ticks`
\* ticks of user time and whose status record reports `state`.
ProcDir(ticks, state, stat_fault) ==
    [exists |-> TRUE,
     cmdline |-> <<"s", "h", NUL>>,
     stat |-> [fault |-> stat_fault, comm |-> <<"(", "s", "h", ")">>, flags |-> 0,
               priority |-> 20, niceness |-> 0,
               utime |-> ticks, stime |-> 0, cutime |-> 0, cstime |-> 0],
     status |-> [fault |-> "none",
                 fields |-> [Name |-> <<"s", "h">>, State |-> state, Uid |-> 0,
                             VmSize |-> 2, VmRSS |-> 1, RssShmem |-> 0]]]

\* a path below the proc folder that cannot be opened
NoDir == [ProcDir(0, "S", "none") EXCEPT !.exists = FALSE]

Absent == [kind |-> "absent", dir |-> NoDir]

\* What a process directory can hold in the registry's runs: a readable
\* process with no or MaxProcTick ticks, or one with a malformed stat record.
RegistryDirs ==
    {ProcDir(t, "S", "none") : t \in {0, MaxProcTick}}
    \cup {ProcDir(0, "S", "ValueError")}

PidEntries == {[kind |-> "dir", dir |-> d] : d \in RegistryDirs} \cup {Absent}

\* os.listdir(_proc_folder) and os.path.isdir(_proc_folder + name)
listdir(fs) == {name \in DOMAIN fs : fs[name].kind # "absent"}
isdir(fs, name) == fs[name].kind = "dir"

\* enumerate without the pid.isdigit() test
enumerate_any_name(fs) == {pid \in listdir(fs) : isdir(fs, pid)}

\* the set comprehension that opens ProcessesController.update
enumerate(fs) == {pid \in listdir(fs) : isdir(fs, pid) /\ isdigit(pid)}

\* every order in which `for pid in new` can visit the set
RECURSIVE Orders(_)
Orders(S) ==
    IF S = {} THEN {<<>>}
    ELSE UNION {{<<x>> \o o : o \in Orders(S \ {x})} : x \in S}

\* The loop `for pid in new: self._processes.add(Process(pid))`: the first
\* constructor that raises ends it, the records added before it stay.
RECURSIVE add_new(_, _, _, _, _)
add_new(order, processes, fs, uptime_now, total_memory_now) ==
    IF order = <<>> THEN [raised |-> "no", processes |-> processes]
    ELSE LET r == Process_init(order[1], fs[order[1]].dir, uptime_now, total_memory_now)
         IN  IF r.raised # "no" THEN [raised |-> r.raised, processes |-> processes]
             ELSE add_new(Tail(order), processes (+) SetToBag({r.self}),
                          fs, uptime_now, total_memory_now)

\* ProcessesController.update on the registry (processes, previous) with the
\* proc folder `fs` at enumeration; the directories in `vanish` disappear
\* between the enumeration and their read.  `del process` in the first loop
\* only unbinds the loop variable: it removes nothing from the set.
ProcessesController_update(processes, previous, fs, vanish, order, uptime_now, total_memory_now) ==
    LET actual == enumerate(fs)
        obsolete == previous \ actual
        new == actual \ previous
        fs_read == [name \in DOMAIN fs |-> IF name \in vanish THEN Absent ELSE fs[name]]
        r == add_new(order, processes, fs_read, uptime_now, total_memory_now)
    IN  [raised |-> r.raised,
         processes |-> r.processes,
         previous |-> IF r.raised = "no" THEN actual ELSE previous,
         actual |-> actual,
         fs |-> fs_read]

-----------------------------------------------------------------------------
(* The Cpu object *)

\* Cpu.update() without the shift of curr_stat into prev_stat
Cpu_update_no_shift(prev, curr, r) ==
    [raised |-> r.raised,
     prev_stat |-> prev,
     curr_stat |-> IF r.raised = "no" THEN r.lst ELSE curr]

\* Cpu.__init__ when _read_file yields r: both attributes are the reading; a
\* raise leaves no object (no sample at all).
Cpu_init(r) ==
    [raised |-> r.raised,
     prev_stat |-> IF r.raised = "no" THEN r.lst ELSE <<>>,
     curr_stat |-> IF r.raised = "no" THEN r.lst ELSE <<>>]

\* Cpu.update() when _read_file yields r: prev_stat is assigned before the
\* file is read, curr_stat only when the read returned.
Cpu_update(prev, curr, r) ==
    [raised |-> r.raised,
     prev_stat |-> curr,
     curr_stat |-> IF r.raised = "no" THEN r.lst ELSE curr]

\* "ok" for a call that returned, the exception otherwise
ResultOf(raised) == IF raised = "no" THEN "ok" ELSE raised

\* Cpu() over the given readings
CpuInitFrom(readings) ==
    \E r \in readings :
        LET c == Cpu_init(r)
        IN  /\ prev_stat = c.prev_stat
            /\ curr_stat = c.curr_stat
            /\ cpu_result = ResultOf(c.raised)
            /\ cpu_call = "__init__"
            /\ stat_source = r.source

\* the Cpu object exists: its constructor returned
CpuExists == ~(cpu_call = "__init__" /\ cpu_result # "ok")

\* cpu.update() over the given readings
CpuUpdateFrom(readings) ==
    /\ CpuExists
    /\ \E r \in readings :
        LET c == Cpu_update(prev_stat, curr_stat, r)
        IN  /\ prev_stat' = c.prev_stat
            /\ curr_stat' = c.curr_stat
            /\ cpu_result' = ResultOf(c.raised)
            /\ cpu_call' = "update"
            /\ stat_source' = r.source

CpuInit == CpuInitFrom(StatReadings)

CpuUpdate == CpuUpdateFrom(StatReadings)

\* a Cpu object that is constructed and not used further
CpuIdle ==
    /\ prev_stat = <<CpuStat([tag |-> "cpuN", name |-> 0, vals |-> ZeroRow])>>
    /\ curr_stat = prev_stat
    /\ cpu_result = "ok"
    /\ cpu_call = "__init__"
    /\ stat_source = [readable |-> TRUE, lines |-> StatFile(<<ZeroRow>>)]

-----------------------------------------------------------------------------
(* The MemInfo object *)

\* MemInfo.total_memory, used_memory, total_swap and used_swap
total_memory_of(self) == self._total_memory
used_memory_of(self) == self._used_memory
total_swap_of(self) == self._total_swap
used_swap_of(self) == self._used_swap

\* MemInfo() over the given sources; a raise leaves no object
MemInitFrom(sources) ==
    \E source \in sources :
        LET r == MemInfo_init(source)
        IN  /\ meminfo = IF r.raised = "no" THEN r.self ELSE MemInfo_new
            /\ mem_result = ResultOf(r.raised)
            /\ mem_call = "__init__"
            /\ mem_source = source

\* the MemInfo object exists: its constructor returned
MemExists == ~(mem_call = "__init__" /\ mem_result # "ok")

\* memory.update() over the given sources
MemUpdateFrom(sources) ==
    /\ MemExists
    /\ \E source \in sources :
        LET r == MemInfo_update(meminfo, source)
        IN  /\ meminfo' = r.self
            /\ mem_result' = ResultOf(r.raised)
            /\ mem_call' = "update"
            /\ mem_source' = source

MemInit == MemInitFrom(MemSources)

MemUpdate == MemUpdateFrom(MemSources)

\* a MemInfo object that is constructed and not used further
MemIdle ==
    /\ mem_source = MemFile(MemRow(MaxMem, "MemFree", 0), <<>>)
    /\ meminfo = MemInfo_init(mem_source).self
    /\ mem_result = "ok"
    /\ mem_call = "__init__"

-----------------------------------------------------------------------------
(* The ProcessesController object *)

\* ProcessesController.processes, .proccesses_number and .processes_pid (the
\* list as a bag of integers)
processes == _processes
proccesses_number == BagCardinality(_processes)

PidsOf(bag) == {p.pid : p \in BagToSet(bag)}

RECURSIVE Copies(_, _)
Copies(bag, records) ==
    IF records = {} THEN 0
    ELSE LET p == CHOOSE q \in records : TRUE
         IN  CopiesIn(p, bag) + Copies(bag, records \ {p})

processes_pid == [n \in {int(pid) : pid \in PidsOf(_processes)} |->
                    Copies(_processes, {p \in BagToSet(_processes) : int(p.pid) = n})]

\* the proc folders of the model: process directories come and go, the two
\* other entries stay
ProcFolders ==
    {[name \in EntryNames |->
        IF name = SelfName THEN [kind |-> "dir", dir |-> ProcDir(0, "S", "none")]
        ELSE IF name = FileName THEN [kind |-> "file", dir |-> NoDir]
        ELSE f[name]] : f \in [PidNames -> PidEntries]}

Snapshot == [processes |-> _processes, previous |-> _previous_procceses]

\* ProcessesController(uptime, memory) returned: its update() on the empty
\* registry raised nothing
RegistryInit ==
    /\ procfs \in ProcFolders
    /\ uptime \in {0, MaxUptime}
    /\ total_memory = MaxMem
    /\ LET r == ProcessesController_update(EmptyBag, {}, procfs, {},
                    CHOOSE o \in Orders(enumerate(procfs)) : TRUE,
                    uptime, total_memory)
       IN  /\ r.raised = "no"
           /\ _processes = r.processes
           /\ _previous_procceses = r.previous
           /\ actual_processes = r.actual
           /\ vanished = {}
           /\ ctl_raised = "no"
           /\ before = [processes |-> EmptyBag, previous |-> {}]

\* a process starts, exits, runs or has its stat record damaged
FsChange ==
    \E pid \in PidNames, entry \in PidEntries :
        /\ entry # procfs[pid]
        /\ procfs' = [procfs EXCEPT ![pid] = entry]
        /\ ctl_raised' = "none"
        /\ actual_processes' = {}
        /\ vanished' = {}
        /\ before' = Snapshot
        /\ UNCHANGED <<uptime, total_memory, _processes, _previous_procceses>>

\* ProcessesController.update()
ControllerUpdate ==
    LET new == enumerate(procfs) \ _previous_procceses IN
    /\ BagCardinality(_processes) + Cardinality(new) <= MaxObjects
    /\ \E vanish \in SUBSET new, order \in Orders(new) :
        LET r == ProcessesController_update(_processes, _previous_procceses, procfs,
                                            vanish, order, uptime, total_memory)
        IN  /\ _processes' = r.processes
            /\ _previous_procceses' = r.previous
            /\ procfs' = r.fs
            /\ ctl_raised' = r.raised
            /\ actual_processes' = r.actual
            /\ vanished' = vanish
            /\ before' = Snapshot
            /\ UNCHANGED <<uptime, total_memory>>

\* a registry over an empty proc folder that is not used further
RegistryIdle ==
    /\ procfs = CHOOSE fs \in ProcFolders : enumerate(fs) = {}
    /\ uptime = 0
    /\ total_memory = MaxMem
    /\ _processes = EmptyBag
    /\ _previous_procceses = {}
    /\ ctl_raised = "no"
    /\ actual_processes = {}
    /\ vanished = {}
    /\ before = [processes |-> EmptyBag, previous |-> {}]

-----------------------------------------------------------------------------
(* A single Process object *)

\* what /proc/[pid]/ can hold when a Process object reads it
ProcessDirs ==
    {ProcDir(t, st, fault) : t \in 0..MaxProcTick, st \in {"R", "S"},
                             fault \in {"none", "ValueError", "IndexError"}}
    \cup {NoDir}

\* Process(pid) returned, after Process.set_uptime and set_memory_info
ProcessInit ==
    /\ uptime \in 0..MaxUptime
    /\ total_memory \in 1..MaxMem
    /\ proc_dir \in ProcessDirs
    /\ LET r == Process_init(PidName(1), proc_dir, uptime, total_memory)
       IN  r.raised = "no" /\ proc = r.self
    /\ proc_raised = "no"
    /\ proc_call = "__init__"

\* no Process object exists after a constructor that raised
ProcessExists == ~(proc_call = "__init__" /\ proc_raised # "no")

\* proc.update() over the given directory contents
ProcessUpdateFrom(dirs) ==
    /\ ProcessExists
    /\ \E dir \in dirs :
        LET r == Process_update(proc, dir, uptime, total_memory)
        IN  /\ proc' = r.self
            /\ proc_dir' = dir
            /\ proc_raised' = r.raised
            /\ proc_call' = "update"
            /\ UNCHANGED <<uptime, total_memory>>

ProcessUpdate == ProcessUpdateFrom(ProcessDirs)

\* Uptime.update() of the object held in Process._uptime read a new value
UptimeUpdate ==
    \E value \in 0..MaxUptime :
        /\ value # uptime
        /\ uptime' = value
        /\ UNCHANGED <<total_memory, proc, proc_dir, proc_raised, proc_call>>

\* a record without the line of the given name
DropLine(fields, name) == [k \in DOMAIN fields \ {name} |-> fields[k]]

\* command lines: two NUL-terminated arguments, and the empty one of a
\* kernel thread or a zombie
CmdLines == {<<"s", "h", NUL, "x", NUL>>, <<>>}

\* names in the stat record: one word, two words, a one-letter first word,
\* and the empty name
Comms == {<<"(", "s", "h", ")">>, <<"(", "a", "b", " ", "c", ")">>,
          <<"(", "a", " ", "b", ")">>, <<"(", ")">>}

\* the text of the Name line of the status record
StatusNames == {<<"s", "h">>, <<"a", "b", " ", "c">>}

\* status records: complete, without one of the Name, State and Uid lines,
\* or with a malformed line (a line without a value raises IndexError, a
\* Uid or Vm* value that is no integer ValueError)
StatusRecords ==
    LET Full(name) == [Name |-> name, State |-> "S", Uid |-> 0,
                       VmSize |-> 2, VmRSS |-> 1, RssShmem |-> 0]
        Sh == Full(<<"s", "h">>)
    IN  {[fault |-> "none", fields |-> Full(name)] : name \in StatusNames}
        \cup {[fault |-> "none", fields |-> DropLine(Sh, line)] :
                    line \in {"Name", "State", "Uid"}}
        \cup {[fault |-> fault, fields |-> Sh] : fault \in {"ValueError", "IndexError"}}

\* What /proc/[pid]/ can hold when the parsing of its files is examined: every
\* command line, name and status record with a well-formed stat record, and
\* every command line and status record with a malformed one.
ParseDirs ==
    {[exists |-> TRUE,
      cmdline |-> cmdline,
      stat |-> [ProcDir(1, "S", "none").stat EXCEPT !.comm = comm],
      status |-> status] :
        cmdline \in CmdLines, comm \in Comms, status \in StatusRecords}
    \cup {[exists |-> TRUE,
           cmdline |-> cmdline,
           stat |-> ProcDir(1, "S", stat_fault).stat,
           status |-> status] :
        cmdline \in CmdLines, status \in StatusRecords,
        stat_fault \in {"ValueError", "IndexError"}}

\* Process(pid) returned or raised, after Process.set_uptime and
\* set_memory_info
ParseInit ==
    /\ uptime = 0
    /\ total_memory = MaxMem
    /\ proc_dir \in ParseDirs
    /\ LET r == Process_init(PidName(1), proc_dir, uptime, total_memory)
       IN  proc = r.self /\ proc_raised = r.raised
    /\ proc_call = "__init__"

\* proc.update() over these directory contents
ParseUpdate == ProcessUpdateFrom(ParseDirs)

\* a Process object of an idle process that is not used further
ProcessIdle ==
    /\ proc_dir = ProcDir(0, "S", "none")
    /\ proc = Process_init(PidName(1), proc_dir, 0, MaxMem).self
    /\ proc_raised = "no"
    /\ proc_call = "__init__"

\* the registry's part of the state when only a Process object is run
RegistryUnused ==
    /\ procfs = CHOOSE fs \in ProcFolders : enumerate(fs) = {}
    /\ _processes = EmptyBag
    /\ _previous_procceses = {}
    /\ ctl_raised = "no"
    /\ actual_processes = {}
    /\ vanished = {}
    /\ before = [processes |-> EmptyBag, previous |-> {}]

-----------------------------------------------------------------------------
(* The Uptime and LoadAverage objects *)

\* first words of /proc/uptime: decimal numbers with and without fraction
\* or sign, words that are no number, inf and nan
UptimeWords ==
    {<<"7">>, <<"1", "9">>, <<"1", ".", "9">>, <<"9", ".", "1">>,
     <<"-", "1", ".", "9">>, <<"+", "1">>, <<".", "9">>, <<"9", ".">>,
     <<"x">>, <<"1", "x">>, <<"1", ".", "x">>, <<"-">>, <<".">>,
     <<"1", ".", "9", ".", "1">>, <<"i", "n", "f">>, <<"-", "i", "n", "f">>,
     <<"n", "a", "n">>}

\* what open('/proc/uptime') can yield: an uptime followed by the idle time,
\* a single word, an empty or blank file, or an I/O error
UptimeSources ==
    {TextFile(Line(<<w, <<"0", ".", "5">>>>)) : w \in UptimeWords}
    \cup {TextFile(Line(<<w>>)) : w \in UptimeWords}
    \cup {TextFile(<<>>), TextFile(Line(<<>>)), NoFile}

\* Uptime() over one of the given files
UptimeObjInitFrom(sources) ==
    /\ uptime_source \in sources
    /\ uptime = Sampler_update(0, Uptime_read_file(uptime_source))
    /\ uptime_result = ResultOf(Uptime_read_file(uptime_source).raised)
    /\ uptime_call = "__init__"

\* no Uptime object exists after a constructor that raised
UptimeExists == ~(uptime_call = "__init__" /\ uptime_result # "ok")

\* Uptime.update() over one of the given files
UptimeObjUpdateFrom(sources) ==
    /\ UptimeExists
    /\ \E source \in sources :
        /\ uptime_source' = source
        /\ uptime' = Sampler_update(uptime, Uptime_read_file(source))
        /\ uptime_result' = ResultOf(Uptime_read_file(source).raised)
        /\ uptime_call' = "update"

UptimeObjInit == UptimeObjInitFrom(UptimeSources)
UptimeObjUpdate == UptimeObjUpdateFrom(UptimeSources)

\* an Uptime object that is not used further
UptimeIdle ==
    /\ uptime_source = TextFile(Line(<<<<"0">>>>))
    /\ uptime_result = "ok"
    /\ uptime_call = "__init__"

\* words of /proc/loadavg: two numbers and a word that is none, like the
\* fourth word '1/80' of the file
LoadWords == {<<"0", ".", "5">>, <<"1">>, <<"1", "/", "8">>}

\* what open('/proc/loadavg') can yield: up to MaxLoadWords words, or an
\* I/O error
LoadSources ==
    {TextFile(Line(words)) : words \in UNION {SeqsOfLen(LoadWords, n) : n \in 0..MaxLoadWords}}
    \cup {NoFile}

\* LoadAverage() over one of the given files
LoadInitFrom(sources) ==
    /\ load_source \in sources
    /\ load_average = Sampler_update(<<>>, LoadAverage_read_file(load_source))
    /\ load_result = ResultOf(LoadAverage_read_file(load_source).raised)
    /\ load_call = "__init__"

\* no LoadAverage object exists after a constructor that raised
LoadExists == ~(load_call = "__init__" /\ load_result # "ok")

\* LoadAverage.update() over one of the given files
LoadUpdateFrom(sources) ==
    /\ LoadExists
    /\ \E source \in sources :
        /\ load_source' = source
        /\ load_average' = Sampler_update(load_average, LoadAverage_read_file(source))
        /\ load_result' = ResultOf(LoadAverage_read_file(source).raised)
        /\ load_call' = "update"

LoadInit == LoadInitFrom(LoadSources)
LoadUpdate == LoadUpdateFrom(LoadSources)

\* a LoadAverage object that is not used further
LoadIdle ==
    /\ load_source = TextFile(Line(<<<<"1">>, <<"1">>, <<"1">>>>))
    /\ load_average = LoadAverage_read_file(load_source).value
    /\ load_result = "ok"
    /\ load_call = "__init__"

\* LoadAverage.load_average and load_average_as_string
load_average_of(value) == value
load_average_as_string(value) == <<value[1], " ", value[2], " ", value[3]>>

\* Uptime.uptime and uptime_as_string: str(timedelta(seconds=n)) of a
\* non-negative n, as days, hours, minutes and seconds
uptime_of(value) == value
uptime_as_string(value) ==
    [days |-> value \div 86400, hours |-> (value % 86400) \div 3600,
     minutes |-> (value % 3600) \div 60, seconds |-> value % 60]

-----------------------------------------------------------------------------
(* Calls of Utility.kb_to_xb *)

\* the multiples of 1024 kB around which arguments are taken: the two
\* thresholds, their neighbours and the values of the tests
KbMultiples == {0, 1, 99, 100, 101, 136, 784, 1023, 1024, 1025, 2047, 2048, 115436}

\* integer arguments: up to MaxKbDelta kB off a multiple of 1024 kB, and the
\* values of the tests
KbInts ==
    {m * 1024 + d : m \in KbMultiples, d \in (0 - MaxKbDelta)..MaxKbDelta}
    \cup {1234, 139552, 803680, 118206636}

\* arguments: integers, and the float 1024.0, the string '1024' and None
KbArgs ==
    {[type |-> "int", value |-> n] : n \in KbInts}
    \cup {[type |-> t, value |-> 1024] : t \in {"float", "str"}}
    \cup {[type |-> "NoneType", value |-> 0]}

\* no call was made yet
NotCalled == [raised |-> "none", self |-> <<>>]

\* before the call
KbInit == kb_arg \in KbArgs /\ kb_out = NotCalled

\* Utility.kb_to_xb(kb_arg)
KbCall ==
    /\ kb_out = NotCalled
    /\ kb_out' = Utility_kb_to_xb(kb_arg)
    /\ UNCHANGED kb_arg

\* no call of Utility.kb_to_xb
KbIdle == kb_arg = [type |-> "int", value |-> 0] /\ kb_out = NotCalled

-----------------------------------------------------------------------------
(* Process records and the class attributes they share *)

\* the controller that holds proc was constructed with these arguments
SharedInit ==
    /\ own_uptime = uptime
    /\ own_memory = total_memory
    /\ uptime_holder = "own"

\* update() of the Uptime object that was passed to the controller of proc
OwnUptimeUpdate ==
    \E value \in 0..MaxUptime :
        /\ value # own_uptime
        /\ own_uptime' = value
        /\ uptime' = IF uptime_holder = "own" THEN value ELSE uptime
        /\ UNCHANGED <<own_memory, uptime_holder, total_memory, process_vars>>

\* ProcessesController(other_uptime, memory) of a second controller:
\* Process.set_uptime and Process.set_memory_info assign the class attributes
OtherController ==
    \E value \in 0..MaxUptime, memory \in 1..MaxMem :
        /\ uptime' = value
        /\ uptime_holder' = "other"
        /\ total_memory' = memory
        /\ UNCHANGED <<own_uptime, own_memory, process_vars>>

\* Process.set_memory_info(memory)
SetMemoryInfo ==
    \E memory \in 1..MaxMem :
        /\ memory # total_memory
        /\ total_memory' = memory
        /\ UNCHANGED <<uptime, own_uptime, own_memory, uptime_holder, process_vars>>

\* Process.set_uptime(obj) with the own or with another Uptime object
SetUptime ==
    \E holder \in {"own", "other"}, value \in 0..MaxUptime :
        /\ holder = "own" => value = own_uptime
        /\ <<holder, value>> # <<uptime_holder, uptime>>
        /\ uptime_holder' = holder
        /\ uptime' = value
        /\ UNCHANGED <<total_memory, own_uptime, own_memory, process_vars>>

\* what /proc/[pid]/ holds when the record of the controller is updated
SharedDirs == {ProcDir(t, "S", "none") : t \in {0, MaxProcTick}}

\* update() of proc by its controller's owner
SharedProcessUpdate ==
    ProcessUpdateFrom(SharedDirs) /\ UNCHANGED <<own_uptime, own_memory, uptime_holder>>

\* no second controller
SharedIdle == own_uptime = 0 /\ own_memory = 0 /\ uptime_holder = "own"

\* the objects and calls of this part when they are not used
OthersIdle == SharedIdle /\ UptimeIdle /\ LoadIdle /\ KbIdle

\* the registry's variables apart from the two class attributes of Process
registry_rest == <<procfs, _processes, _previous_procceses, ctl_raised,
                   actual_processes, vanished, before>>

-----------------------------------------------------------------------------
(* The application: a Cpu and a MemInfo object refreshed together, and a
   Process object that reads the total memory injected at start *)

\* no refresh has raised
NoRefresh == refresh_raised = "no"

\* what /proc/stat, /proc/meminfo and /proc/[pid]/ hold while the application
\* runs: one core with no tick, a user tick or an idle tick, or no per-core
\* line; MemTotal 1 or MaxMem, or a file without SwapFree; a process with no
\* or MaxProcTick ticks
AppReadings ==
    ReadingsOf({[readable |-> TRUE, lines |-> StatFile(rows)] :
                    rows \in {<<r>> : r \in UnitRows} \cup {<<>>}})

AppMemSources ==
    {MemFile(MemRow(t, "MemFree", 0), <<>>) : t \in {1, MaxMem}}
    \cup {MemFile(Without(MemRow(MaxMem, "MemFree", 0), "SwapFree"), <<>>)}

AppDirs == {ProcDir(t, "S", "none") : t \in {0, MaxProcTick}}

\* Application.refresh: `for i in self._data: i.update()` over [cpu, memory];
\* an exception of cpu.update() ends the loop before memory.update(), and an
\* exception of either leaves refresh without the alarm being set again.
Refresh ==
    /\ refresh_raised = "no"
    /\ CpuExists
    /\ MemExists
    /\ \E r \in AppReadings, source \in AppMemSources :
        LET c == Cpu_update(prev_stat, curr_stat, r)
            mm == MemInfo_update(meminfo, source)
        IN  /\ prev_stat' = c.prev_stat
            /\ curr_stat' = c.curr_stat
            /\ cpu_result' = ResultOf(c.raised)
            /\ cpu_call' = "update"
            /\ stat_source' = r.source
            /\ IF c.raised # "no"
               THEN /\ refresh_raised' = c.raised
                    /\ UNCHANGED mem_vars
               ELSE /\ meminfo' = mm.self
                    /\ mem_result' = ResultOf(mm.raised)
                    /\ mem_call' = "update"
                    /\ mem_source' = source
                    /\ refresh_raised' = mm.raised

\* Application() returned on an idle machine at uptime 0 and
\* Process.set_memory_info(memory.total_memory) was called before Process(pid)
AppInit ==
    /\ CpuIdle
    /\ MemIdle
    /\ NoRefresh
    /\ RegistryIdle
    /\ ProcessIdle
    /\ OthersIdle
    /\ total_memory = ValueOf(total_memory_of(meminfo))

-----------------------------------------------------------------------------
(* Specifications *)


\* the Cpu sampler
InitCpu == CpuInit /\ MemIdle /\ NoRefresh /\ RegistryIdle /\ ProcessIdle /\ OthersIdle

NextCpu ==
    CpuUpdate /\ UNCHANGED <<mem_vars, refresh_raised, registry_vars, process_vars, other_vars>>

\* the MemInfo sampler
InitMem == MemInit /\ CpuIdle /\ NoRefresh /\ RegistryIdle /\ ProcessIdle /\ OthersIdle

NextMem ==
    MemUpdate /\ UNCHANGED <<cpu_vars, refresh_raised, registry_vars, process_vars, other_vars>>

SpecMem == InitMem /\ [][NextMem]_vars

SpecCpu == InitCpu /\ [][NextCpu]_vars

\* the process registry
Init == RegistryInit /\ CpuIdle /\ MemIdle /\ NoRefresh /\ ProcessIdle /\ OthersIdle

Next ==
    \/ FsChange /\ UNCHANGED <<cpu_vars, mem_vars, refresh_raised, process_vars, other_vars>>
    \/ ControllerUpdate /\ UNCHANGED <<cpu_vars, mem_vars, refresh_raised, process_vars, other_vars>>

Spec == Init /\ [][Next]_vars

\* a single Process object and the Uptime object it reads
InitProcess == ProcessInit /\ RegistryUnused /\ CpuIdle /\ MemIdle /\ NoRefresh /\ OthersIdle

NextProcess ==
    \/ ProcessUpdate /\ UNCHANGED <<cpu_vars, mem_vars, refresh_raised, other_vars>> /\ UNCHANGED
            <<procfs, _processes, _previous_procceses, ctl_raised,
              actual_processes, vanished, before>>
    \/ UptimeUpdate /\ UNCHANGED <<cpu_vars, mem_vars, refresh_raised, other_vars>> /\ UNCHANGED
            <<procfs, _processes, _previous_procceses, ctl_raised,
              actual_processes, vanished, before>>

SpecProcess == InitProcess /\ [][NextProcess]_vars

\* A Process object constructed and updated over well-formed and malformed
\* files.
InitParse == ParseInit /\ RegistryUnused /\ CpuIdle /\ MemIdle /\ NoRefresh /\ OthersIdle

NextParse ==
    ParseUpdate /\ UNCHANGED <<cpu_vars, mem_vars, refresh_raised, other_vars, procfs, _processes,
                               _previous_procceses, ctl_raised, actual_processes,
                               vanished, before>>

SpecParse == InitParse /\ [][NextParse]_vars

\* the Uptime sampler
InitUptime ==
    /\ UptimeObjInit /\ total_memory = MaxMem /\ RegistryUnused /\ ProcessIdle
    /\ CpuIdle /\ MemIdle /\ NoRefresh /\ SharedIdle /\ LoadIdle /\ KbIdle

NextUptime ==
    UptimeObjUpdate /\ UNCHANGED <<cpu_vars, mem_vars, refresh_raised, total_memory,
                                   registry_rest, process_vars, shared_vars,
                                   load_vars, kb_vars>>

SpecUptime == InitUptime /\ [][NextUptime]_vars

\* the LoadAverage sampler
InitLoad == LoadInit /\ RegistryIdle /\ ProcessIdle /\ CpuIdle /\ MemIdle /\ NoRefresh /\ SharedIdle /\ UptimeIdle /\ KbIdle

NextLoad ==
    LoadUpdate /\ UNCHANGED <<cpu_vars, mem_vars, refresh_raised, registry_vars,
                              process_vars, shared_vars, uptime_vars, kb_vars>>

SpecLoad == InitLoad /\ [][NextLoad]_vars

\* both samplers over fewer files
SamplerUptimeSources ==
    {TextFile(Line(<<w>>)) : w \in {<<"7">>, <<"1", ".", "9">>, <<"x">>, <<"i", "n", "f">>}}
    \cup {TextFile(<<>>), NoFile}

SamplerLoadSources ==
    {TextFile(Line(words)) :
        words \in {<<>>, <<<<"1">>, <<"1">>>>, <<<<"1">>, <<"0", ".", "5">>, <<"1">>>>,
                   <<<<"0", ".", "5">>, <<"1">>, <<"1">>, <<"1", "/", "8">>>>,
                   <<<<"1">>, <<"1", "/", "8">>, <<"1">>>>}}
    \cup {NoFile}

InitSamplers ==
    /\ UptimeObjInitFrom(SamplerUptimeSources) /\ LoadInitFrom(SamplerLoadSources)
    /\ UptimeExists /\ LoadExists
    /\ total_memory = MaxMem /\ RegistryUnused /\ ProcessIdle
    /\ CpuIdle /\ MemIdle /\ NoRefresh /\ SharedIdle /\ KbIdle

NextSamplers ==
    \/ UptimeObjUpdateFrom(SamplerUptimeSources)
            /\ UNCHANGED <<cpu_vars, mem_vars, refresh_raised, total_memory, registry_rest,
                           process_vars, shared_vars, load_vars, kb_vars>>
    \/ LoadUpdateFrom(SamplerLoadSources)
            /\ UNCHANGED <<cpu_vars, mem_vars, refresh_raised, registry_vars,
                           process_vars, shared_vars, uptime_vars, kb_vars>>

SpecSamplers == InitSamplers /\ [][NextSamplers]_vars

\* calls of Utility.kb_to_xb
InitKb == KbInit /\ RegistryIdle /\ ProcessIdle /\ CpuIdle /\ MemIdle /\ NoRefresh /\ SharedIdle /\ UptimeIdle /\ LoadIdle

NextKb ==
    KbCall /\ UNCHANGED <<cpu_vars, mem_vars, refresh_raised, registry_vars,
                          process_vars, shared_vars, uptime_vars, load_vars>>

SpecKb == InitKb /\ [][NextKb]_vars

\* a Process record, its controller's arguments and a second controller
InitShared ==
    /\ ProcessInit /\ SharedInit /\ RegistryUnused
    /\ CpuIdle /\ MemIdle /\ NoRefresh /\ UptimeIdle /\ LoadIdle /\ KbIdle

NextShared ==
    \/ SharedProcessUpdate /\ UNCHANGED <<cpu_vars, mem_vars, refresh_raised, registry_rest,
                                          uptime_vars, load_vars, kb_vars>>
    \/ OwnUptimeUpdate /\ UNCHANGED <<cpu_vars, mem_vars, refresh_raised, registry_rest,
                                      uptime_vars, load_vars, kb_vars>>
    \/ OtherController /\ UNCHANGED <<cpu_vars, mem_vars, refresh_raised, registry_rest,
                                      uptime_vars, load_vars, kb_vars>>
    \/ SetMemoryInfo /\ UNCHANGED <<cpu_vars, mem_vars, refresh_raised, registry_rest,
                                    uptime_vars, load_vars, kb_vars>>
    \/ SetUptime /\ UNCHANGED <<cpu_vars, mem_vars, refresh_raised, registry_rest,
                                uptime_vars, load_vars, kb_vars>>

SpecShared == InitShared /\ [][NextShared]_vars

\* the application with its samplers and a Process object
NextApp ==
    \/ Refresh /\ UNCHANGED <<registry_vars, process_vars, other_vars>>
    \/ ProcessUpdateFrom(AppDirs) /\ UNCHANGED <<cpu_vars, mem_vars, refresh_raised, other_vars>>
            /\ UNCHANGED <<procfs, _processes, _previous_procceses, ctl_raised,
                           actual_processes, vanished, before>>
    \/ UptimeUpdate /\ UNCHANGED <<cpu_vars, mem_vars, refresh_raised, other_vars>>
            /\ UNCHANGED <<procfs, _processes, _previous_procceses, ctl_raised,
                           actual_processes, vanished, before>>

SpecApp == AppInit /\ [][NextApp]_vars

-----------------------------------------------------------------------------
(* Properties of the process registry, checked under Spec *)

\* the records that the last update added
Added == BagToSet(_processes (-) before.processes)

\* the pids that had a record when the last update began
TrackedBefore == PidsOf(before.processes)

\* the ticks and the state that the stat and status records of pid hold now
SourceTicks(pid) ==
    LET stat == procfs[pid].dir.stat
    IN  stat.utime + stat.stime + stat.cutime + stat.cstime
SourceState(pid) == procfs[pid].dir.status.fields["State"]
Readable(pid) ==
    /\ procfs[pid].kind = "dir"
    /\ procfs[pid].dir.stat.fault = "none"
    /\ procfs[pid].dir.status.fault = "none"

\* C1: after an update, a pid that was tracked before it and that it did not
\* enumerate has no record in the registry any more.
C1_ObsoleteDropped ==
    ctl_raised # "none" =>
        \A pid \in TrackedBefore \ actual_processes : pid \notin PidsOf(_processes)

\* C2: after an update, every record of a pid that was tracked before and is
\* still enumerated holds the tick count and the state that its stat and
\* status records hold in this cycle.
C2_TrackedRefreshed ==
    ctl_raised = "no" =>
        \A p \in BagToSet(_processes) :
            (p.pid \in TrackedBefore \cap actual_processes /\ Readable(p.pid)) =>
                /\ p._time_ticks_old = Some(SourceTicks(p.pid))
                /\ p.state = SourceState(p.pid)

\* C3: the registry never holds two records of one pid: processes_pid
\* contains no value twice.
C3_OneRecordPerPid ==
    \A n \in DOMAIN processes_pid : processes_pid[n] <= 1

\* C4: after an update that returned, every enumerated pid has a record;
\* right after construction processes_pid is exactly the set of numeric
\* directory entries and proccesses_number its size; an entry that is no
\* directory or whose name is not all digits never has a record.
C4_Exhaustive ==
    /\ \A p \in BagToSet(_processes) :
            isdigit(p.pid) /\ procfs[p.pid].kind # "file"
    /\ ctl_raised = "no" => actual_processes \subseteq PidsOf(_processes)
    /\ (ctl_raised = "no" /\ before.processes = EmptyBag) =>
            /\ PidsOf(_processes) = {n \in EntryNames :
                                        procfs[n].kind = "dir" /\ isdigit(n)}
            /\ DOMAIN processes_pid = {int(n) : n \in PidsOf(_processes)}
            /\ C3_OneRecordPerPid
            /\ proccesses_number = Cardinality(PidsOf(_processes))

\* C4 witness: an update of a registry that already held records returned
\* after enumerating a pid it had not tracked.
C4_Witness ==
    /\ ctl_raised = "no"
    /\ before.processes # EmptyBag
    /\ actual_processes \ before.previous # {}
    /\ proccesses_number >= 2

\* C5: a pid enumerated for the first time has a record when the update
\* returns, and every record an update adds has cpu_usage 0.0 and the
\* current uptime and tick count as its baseline.
C5_FirstObservation ==
    /\ ctl_raised = "no" =>
            \A pid \in actual_processes \ before.previous : pid \in PidsOf(_processes)
    /\ ctl_raised # "none" =>
            \A p \in Added :
                /\ p.cpu_usage = RatZero
                /\ p._uptime_old = Some(uptime)
                /\ p._time_ticks_old = Some(SourceTicks(p.pid))

\* C5 witness: an update of a registry that already held records added a
\* record of a process with ticks on its account, at a positive uptime.
C5_Witness ==
    /\ ctl_raised = "no"
    /\ before.processes # EmptyBag
    /\ uptime > 0
    /\ \E p \in Added : SourceTicks(p.pid) > 0 /\ p.cpu_usage = RatZero

\* C6: when a directory vanishes between the enumeration and its read, the
\* update raises nothing, adds no record of that pid and every other
\* enumerated pid has a record afterwards.
C6_RaceLossSilent ==
    vanished # {} =>
        /\ ctl_raised = "no"
        /\ \A p \in Added : p.pid \notin vanished
        /\ \A pid \in actual_processes \ vanished :
                Readable(pid) => pid \in PidsOf(_processes)

\* the enumerated pids whose stat record is malformed while they exist
Malformed == {pid \in actual_processes :
                procfs[pid].kind = "dir" /\ procfs[pid].dir.stat.fault # "none"}

\* C7: when the read of a newly enumerated pid fails on malformed data, every
\* other enumerated pid still has a record after the update and the cycle
\* runs to its end (the enumerated set becomes the previous set).
C7_MalformedIsLocal ==
    (ctl_raised # "none" /\ vanished = {} /\ Malformed \ before.previous # {}) =>
        /\ \A pid \in actual_processes \ Malformed : pid \in PidsOf(_processes)
        /\ _previous_procceses = actual_processes

-----------------------------------------------------------------------------
(* Properties of the Cpu sampler, checked under SpecCpu *)

RECURSIVE SumOver(_, _)
SumOver(row, fields) ==
    IF fields = {} THEN 0
    ELSE LET f == CHOOSE g \in fields : TRUE
         IN  row[f] + SumOver(row, fields \ {f})

\* the fields whose sum Cpu.cpu_usage takes as the total: all but the guest
\* counters
CountedFields == CpuStatFields \ {"guest", "guest_nice"}

Cores == 1..Min(Len(prev_stat), Len(curr_stat))

\* the deltas of core i between the two retained samples
TotalDiff(i, fields) == SumOver(curr_stat[i], fields) - SumOver(prev_stat[i], fields)
IdleDiff(i) == TotalDiff(i, {"idle", "iowait"})

\* the percentage the formula gives for core i with `fields` as the total
Formula(i, fields) ==
    Ratio(100 * (TotalDiff(i, fields) - IdleDiff(i)), TotalDiff(i, fields))

\* C8 as stated: with totalDiff the delta of the sum of all ten fields,
\* every core with totalDiff > 0 has usage 100 * (totalDiff - idleDiff) /
\* totalDiff.
C8_TenFieldFormula ==
    \A i \in Cores :
        TotalDiff(i, CpuStatFields) > 0 => cpu_usage[i] = Formula(i, CpuStatFields)

\* C8 amended: with totalDiff the delta of the sum of the eight fields user,
\* nice, system, idle, iowait, irq, softirq and steal, every core with
\* totalDiff > 0 has usage 100 * (totalDiff - idleDiff) / totalDiff; a delta
\* that is 25% idle+iowait gives 75.0, and 0, 50 and 100% give 100.0, 50.0
\* and 0.0.
C8_EightFieldFormula ==
    \A i \in Cores :
        LET total == TotalDiff(i, CountedFields)
            idle == IdleDiff(i)
        IN  total > 0 =>
                /\ cpu_usage[i] = Formula(i, CountedFields)
                /\ 4 * idle = total => cpu_usage[i] = <<75, 1>>
                /\ idle = 0 => cpu_usage[i] = <<100, 1>>
                /\ 2 * idle = total => cpu_usage[i] = <<50, 1>>
                /\ idle = total => cpu_usage[i] = <<0, 1>>

\* C8 witness: an update read a sample whose delta is one idle tick in four
\* and whose guest counter moved or stood still, and the usage is 75.0.
C8_Witness ==
    /\ cpu_result = "ok"
    /\ prev_stat # curr_stat
    /\ \E i \in Cores :
        /\ TotalDiff(i, CountedFields) = 4
        /\ IdleDiff(i) = 1
        /\ cpu_usage[i] = <<75, 1>>

\* C9 as stated: with totalDiff the delta of the sum of all ten fields, a
\* core with totalDiff <= 0 has usage exactly 0.0.
C9_TenFieldNoGrowth ==
    \A i \in Cores :
        TotalDiff(i, CpuStatFields) <= 0 => cpu_usage[i] = RatZero

\* C9 amended: a core whose total did not grow between the two samples (total_diff
\* <= 0: unchanged counters or a counter reset) has usage exactly 0.0; with
\* prev_stat = curr_stat, as right after construction and after an update
\* that read unchanged counters, every core has usage 0.0.
C9_NoGrowthIsZero ==
    /\ \A i \in Cores :
            TotalDiff(i, CountedFields) <= 0 => cpu_usage[i] = RatZero
    /\ prev_stat = curr_stat =>
            /\ Len(cpu_usage) = Len(curr_stat)
            /\ \A i \in Cores : cpu_usage[i] = RatZero

\* C9 witness: an update read a sample whose total is smaller than the
\* previous one (a counter reset), and the usage of that core is 0.0.
C9_Witness ==
    /\ cpu_result = "ok"
    /\ \E i \in Cores :
        /\ TotalDiff(i, CountedFields) < 0
        /\ curr_stat[i].user < prev_stat[i].user
        /\ cpu_usage[i] = RatZero

\* C10: no derived rate is negative, whatever the two samples are: not the
\* usage of a core, not the cpu_usage of a Process object.
C10_NeverNegative ==
    /\ \A i \in Cores : ~RatIsNeg(cpu_usage[i])
    /\ ~RatIsNeg(proc.cpu_usage)
    /\ \A p \in BagToSet(_processes) : ~RatIsNeg(p.cpu_usage)

\* the Process half of C10 alone, for SpecProcess
C10_ProcessNeverNegative == ~RatIsNeg(proc.cpu_usage)

\* the per-core lines ('cpu' followed by an index) of a counter source
PerCoreLines(source) == SelectSeq(source.lines, LAMBDA l : l.tag = "cpuN")

\* the sample that a source holds: one row per per-core line, in file order
SampleOf(source) ==
    [i \in 1..Len(PerCoreLines(source)) |->
        [f \in CpuStatFields \cup {"name"} |->
            IF f = "name" THEN PerCoreLines(source)[i].name
            ELSE PerCoreLines(source)[i].vals[f]]]

\* C11: Cpu keeps the two most recent samples.  After every call that
\* returned, curr_stat is the sample of the source that call read; after
\* construction prev_stat is that same sample; and every update() that
\* returns leaves in prev_stat what curr_stat was before it, so that after
\* updates reading r1..rk the pair is (r(k-1), rk).
C11_TwoMostRecent ==
    /\ [](cpu_result = "ok" => curr_stat = SampleOf(stat_source))
    /\ []((cpu_call = "__init__" /\ cpu_result = "ok") => prev_stat = curr_stat)
    /\ [][(cpu_call' = "update" /\ cpu_result' = "ok") => prev_stat' = curr_stat]_vars

\* C11 witness: an update returned with a sample that differs from the one
\* read before it, and both are retained.
C11_Witness ==
    /\ cpu_call = "update"
    /\ cpu_result = "ok"
    /\ curr_stat = SampleOf(stat_source)
    /\ prev_stat # curr_stat
    /\ Len(prev_stat) = Len(curr_stat)

\* C12: the usage list has one entry per core of the sample just read, and
\* an update() that reads a number of per-core rows other than that of the
\* previous sample raises: no call returns with two samples of different
\* lengths.
C12_CoreCountChangeRaises ==
    cpu_result = "ok" =>
        /\ Len(prev_stat) = Len(curr_stat)
        /\ Len(cpu_usage) = Len(curr_stat)

\* C13: a readable counter source without a per-core line makes the call
\* that reads it, construction or update(), raise SystemInfoError, also when
\* the source holds the aggregate 'cpu ' line.
C13_NoRowsRaises ==
    (stat_source.readable /\ PerCoreLines(stat_source) = <<>>) =>
        cpu_result = "SystemInfoError"

\* C13 witness: update() read a source that holds the aggregate line and no
\* per-core line, and raised SystemInfoError.
C13_Witness ==
    /\ cpu_call = "update"
    /\ stat_source.readable
    /\ \E i \in 1..Len(stat_source.lines) : stat_source.lines[i].tag = "cpu "
    /\ PerCoreLines(stat_source) = <<>>
    /\ cpu_result = "SystemInfoError"

-----------------------------------------------------------------------------
(* Properties of the MemInfo sampler, checked under SpecMem *)

\* the names of the required fields that a memory source reports
ReportedFields(source) ==
    {n \in MeaningfulNames : \E i \in 1..Len(source.lines) : source.lines[i].name = n}

\* the value that a memory source reports for field n
Reported(source, n) ==
    source.lines[CHOOSE i \in 1..Len(source.lines) : source.lines[i].name = n].value

\* C14: whichever of the eight required fields a readable memory source
\* lacks, the call that reads it, construction or update(), raises
\* SystemInfoError.
C14_MissingFieldRaises ==
    \A g \in MeaningfulNames :
        (mem_source.readable /\ g \notin ReportedFields(mem_source)) =>
            mem_result = "SystemInfoError"

\* C14 witness: update() read a source that lacks Shmem and no other required
\* field, and raised SystemInfoError.
C14_Witness ==
    /\ mem_call = "update"
    /\ mem_source.readable
    /\ ReportedFields(mem_source) = MeaningfulNames \ {"Shmem"}
    /\ mem_result = "SystemInfoError"

\* C15: after every call that returned, the four figures are those of the
\* source that call read and of nothing else: total_memory = MemTotal,
\* used_memory = MemTotal - MemFree - Buffers - Cached - SReclaimable +
\* Shmem (negative when the fields make it so), total_swap = SwapTotal and
\* used_swap = SwapTotal - SwapFree.
C15_FiguresOfLastRead ==
    mem_result = "ok" =>
        LET v(n) == Reported(mem_source, n) IN
        /\ total_memory_of(meminfo) = Some(v("MemTotal"))
        /\ used_memory_of(meminfo) =
                Some(v("MemTotal") - v("MemFree") - v("Buffers") - v("Cached")
                     - v("SReclaimable") + v("Shmem"))
        /\ total_swap_of(meminfo) = Some(v("SwapTotal"))
        /\ used_swap_of(meminfo) = Some(v("SwapTotal") - v("SwapFree"))

\* C15 witness: update() returned after reading fields that make used_memory
\* negative.
C15_Witness ==
    /\ mem_call = "update"
    /\ mem_result = "ok"
    /\ ValueOf(used_memory_of(meminfo)) < 0
    /\ ValueOf(total_memory_of(meminfo)) > 0

\* C16: an update() that fails changes none of the four figures.
C16_FailedUpdateChangesNothing ==
    [][(mem_call' = "update" /\ mem_result' # "ok") => meminfo' = meminfo]_vars

-----------------------------------------------------------------------------
(* Properties of a Process object, checked under SpecProcess and SpecApp *)

\* the sum utime + stime + cutime + cstime of a stat record
TicksOf(dir) == dir.stat.utime + dir.stat.stime + dir.stat.cutime + dir.stat.cstime

\* a step in which proc.update() was called (no other step changes the
\* Process object or what is recorded of its call)
ProcessStep == <<proc, proc_dir, proc_raised>>' # <<proc, proc_dir, proc_raised>>

\* C17: every update() of a Process object that returns sets cpu_usage to
\* 100 * ((tickDelta / clockTicksPerSecond) / secondsElapsed), or to 0.0
\* when secondsElapsed <= 0, where tickDelta and secondsElapsed are the
\* changes of the tick sum and of the uptime since the previous observation
\* of this object, and makes the values just read the next baseline.
C17_UsageSinceLastObservation ==
    [][(ProcessStep /\ proc_raised' = "no") =>
        LET tickDelta == TicksOf(proc_dir') - ValueOf(proc._time_ticks_old)
            secondsElapsed == uptime' - ValueOf(proc._uptime_old)
        IN  /\ proc'.cpu_usage =
                    IF secondsElapsed <= 0 THEN RatZero
                    ELSE Ratio(100 * tickDelta, ClockTicksPerSecond * secondsElapsed)
            /\ proc'._time_ticks_old = Some(TicksOf(proc_dir'))
            /\ proc'._uptime_old = Some(uptime')]_vars

\* C17 witness: an update() found more ticks at a later uptime and reported a
\* positive usage.
C17_Witness ==
    /\ proc_raised = "no"
    /\ proc.cpu_usage # RatZero
    /\ ~RatIsNeg(proc.cpu_usage)
    /\ proc._uptime_old = Some(uptime)
    /\ proc._time_ticks_old = Some(TicksOf(proc_dir))

\* C18: every update() of a Process object that returns sets memory_usage to
\* 100 * resident_memory / total memory rounded to one decimal, with the
\* total memory that the MemInfo object reports at that time.
C18_MemoryShareOfCurrentTotal ==
    [][(ProcessStep /\ proc_raised' = "no") =>
        proc'.memory_usage =
            Round1(100 * StatusGet(proc_dir'.status.fields, "VmRSS"),
                   ValueOf(total_memory_of(meminfo)))]_vars

\* the derived values that consumers read from the samplers
Visible == <<cpu_usage, total_memory_of(meminfo), used_memory_of(meminfo),
             total_swap_of(meminfo), used_swap_of(meminfo)>>

\* a step in which Application.refresh was called and changed anything
RefreshStep ==
    <<cpu_vars, mem_vars, refresh_raised>>' # <<cpu_vars, mem_vars, refresh_raised>>

\* C19: a refresh that reads the counters that the read before it read
\* (both returned) leaves every core at usage 0.0, and an update() of a
\* Process object over the directory content of its previous update() (both
\* returned) leaves cpu_usage 0.0 and memory_usage as it was.
C19_RepeatedRefresh ==
    /\ [][(RefreshStep /\ cpu_result = "ok" /\ cpu_result' = "ok"
            /\ stat_source' = stat_source) =>
                /\ Len(cpu_usage') = Len(curr_stat')
                /\ \A i \in 1..Len(cpu_usage') : cpu_usage'[i] = RatZero]_vars
    /\ [][(ProcessStep /\ proc_raised = "no" /\ proc_raised' = "no"
            /\ proc_dir' = proc_dir) =>
                /\ proc'.cpu_usage = RatZero
                /\ proc'.memory_usage = proc.memory_usage]_vars

\* C19 witness: the counters of the core have moved since start and the last
\* refresh read what the one before it read; the process has gained ticks
\* since start and its last update(), at a later uptime, found no new tick.
C19_Witness ==
    /\ cpu_call = "update"
    /\ cpu_result = "ok"
    /\ prev_stat = curr_stat
    /\ curr_stat[1].user + curr_stat[1].idle > 0
    /\ cpu_usage[1] = RatZero
    /\ proc_raised = "no"
    /\ TicksOf(proc_dir) > 0
    /\ proc._uptime_old = Some(uptime)
    /\ uptime > 0
    /\ proc.cpu_usage = RatZero
    /\ proc.memory_usage # RatZero

-----------------------------------------------------------------------------
(* Frame properties of the Cpu sampler and the registry *)

\* C27: an update() of the Cpu object that raises changes neither prev_stat
\* nor curr_stat, and so leaves cpu_usage as it was.
C27_FailedUpdateKeepsHistory ==
    [][(cpu_call' = "update" /\ cpu_result' # "ok") =>
            /\ prev_stat' = prev_stat
            /\ curr_stat' = curr_stat
            /\ cpu_usage' = cpu_usage]_vars

\* C28: an update() of the registry that returns right after one that raised
\* leaves exactly one record of every pid it enumerated.
C28_RetryAddsNothingTwice ==
    [][(ctl_raised \notin {"no", "none"} /\ ctl_raised' = "no") =>
            \A pid \in actual_processes' :
                Copies(_processes', {p \in BagToSet(_processes') : p.pid = pid}) = 1]_vars

\* a per-process source that is malformed: a stat record with too few fields
\* or a non-integer field, a status record with a malformed line or without
\* its State or Uid line
MalformedSource(dir) ==
    /\ dir.exists
    /\ \/ dir.stat.fault # "none"
       \/ dir.status.fault # "none"
       \/ "State" \notin DOMAIN dir.status.fields
       \/ "Uid" \notin DOMAIN dir.status.fields

\* C21: the construction or update() of a Process over a malformed source
\* raises SystemInfoError and no other exception.
C21_MalformedRaisesSystemInfoError ==
    MalformedSource(proc_dir) => proc_raised = "SystemInfoError"

\* the command the record of a process is to show: the cleaned command line,
\* else the name of the stat record without its parentheses, else the Name of
\* the status record
ExpectedCommand(dir) ==
    LET cmd == Process_remove_whitespaces(dir.cmdline)
        short == SubSeq(dir.stat.comm, 2, Len(dir.stat.comm) - 1)
    IN  IF cmd # <<>> THEN cmd
        ELSE IF short # <<>> THEN short
        ELSE dir.status.fields["Name"]

\* C26: after a construction or update() that returned, command is the
\* cleaned command line, or for an empty command line the short name of the
\* stat record, or for an empty short name the Name of the status record.
C26_CommandFallback ==
    proc_raised = "no" => proc.command = ExpectedCommand(proc_dir)

\* the number of bytes a unit suffix stands for; no suffix means kilobytes
BytesPerUnit(unit) ==
    IF unit = <<"MB">> THEN 1024 * 1024 ELSE 1024

\* the byte count that the line of field `name` of a file states
StatedBytes(source, name) ==
    LET line == CHOOSE l \in {source.lines[i] : i \in 1..Len(source.lines)} :
                    l.name = name
    IN  line.value * BytesPerUnit(line.unit)

\* C25: after a read that returned, total_memory and total_swap are the byte
\* counts that the MemTotal and SwapTotal lines state: the value of the line
\* times 1024 for kB or no suffix, times 1024 * 1024 for MB.
C25_ValuesAreBytes ==
    mem_result = "ok" =>
        /\ total_memory_of(meminfo) = Some(StatedBytes(mem_source, "MemTotal"))
        /\ total_swap_of(meminfo) = Some(StatedBytes(mem_source, "SwapTotal"))

-----------------------------------------------------------------------------
(* Properties of Utility.kb_to_xb, checked under SpecKb *)

\* d is the decimal notation of the number n: digits without a leading zero
IsDecimalOf(d, n) ==
    /\ isdigit(d)
    /\ int(d) = n
    /\ Len(d) = 1 \/ d[1] # "0"

\* text is the number of whole units of `unit` kB in kb, followed by suffix
IsWholeUnits(text, kb, unit, suffix) ==
    /\ Len(text) >= 2
    /\ text[Len(text)] = suffix
    /\ \E q \in 0..kb :
        /\ q * unit <= kb
        /\ kb < (q + 1) * unit
        /\ IsDecimalOf(SubSeq(text, 1, Len(text) - 1), q)

\* C22: kb_to_xb of a non-negative integer returns its digits below 100 * 1024,
\* the whole mebi-units with 'M' below 1024 * 1024 and the whole gibi-units
\* with 'G' from there on; of an argument that is no integer it raises
\* TypeError.
C22_KbToXb ==
    kb_out # NotCalled =>
        IF kb_arg.type # "int" THEN kb_out.raised = "TypeError"
        ELSE kb_arg.value >= 0 =>
            /\ kb_out.raised = "no"
            /\ IF kb_arg.value < 100 * 1024
               THEN IsDecimalOf(kb_out.self, kb_arg.value)
               ELSE IF kb_arg.value < 1024 * 1024
               THEN IsWholeUnits(kb_out.self, kb_arg.value, 1024, "M")
               ELSE IsWholeUnits(kb_out.self, kb_arg.value, 1024 * 1024, "G")

C22_Witness ==
    /\ kb_arg = [type |-> "int", value |-> 139552]
    /\ kb_out = Returned(<<"1", "3", "6", "M">>)

-----------------------------------------------------------------------------
(* Properties of the Uptime and LoadAverage samplers, checked under          *)
(* SpecUptime, SpecLoad and SpecSamplers                                     *)

\* n is the fraction q without its fractional part
IsTruncationOf(n, q) ==
    /\ Abs(n) * q[2] <= Abs(q[1])
    /\ Abs(q[1]) < (Abs(n) + 1) * q[2]
    /\ n # 0 => (n < 0 <=> q[1] < 0)

\* C23: a call of Uptime over a readable source either stores a value or
\* raises SystemInfoError; it raises SystemInfoError when the source has no
\* word or its first word is no number, and stores the first word without
\* its fraction when that word is a decimal number.
C23_UptimeTruncates ==
    uptime_source.readable =>
        LET words == split(uptime_source.text)
        IN  /\ uptime_result \in {"ok", "SystemInfoError"}
            /\ (words = <<>> \/ ~IsFloatLiteral(words[1])) =>
                    uptime_result = "SystemInfoError"
            /\ (words # <<>> /\ IsDecimal(Unsigned(words[1]))) =>
                    /\ uptime_result = "ok"
                    /\ IsTruncationOf(uptime, float(words[1]))

\* C24: a call of LoadAverage over a readable source stores the first three
\* words as the three figures, in their order, when there are three words
\* or more and the first three are numbers, and raises SystemInfoError
\* otherwise.
C24_FirstThreeWords ==
    load_source.readable =>
        LET words == split(load_source.text)
        IN  IF Len(words) >= 3 /\ \A k \in 1..3 : IsFloatLiteral(words[k])
            THEN /\ load_result = "ok"
                 /\ load_average_of(load_average)
                        = <<float(words[1]), float(words[2]), float(words[3])>>
            ELSE load_result = "SystemInfoError"

C24_Witness ==
    /\ load_call = "update"
    /\ load_result = "ok"
    /\ Len(split(load_source.text)) = 4
    /\ ~IsFloatLiteral(split(load_source.text)[4])
    /\ load_average[1] # load_average[3]

\* C30: an update() of Uptime or of LoadAverage that raises leaves uptime
\* and uptime_as_string, load_average and load_average_as_string as they
\* were.
C30_FailedUpdateKeepsValue ==
    [][/\ (uptime_call' = "update" /\ uptime_result' # "ok") =>
            /\ uptime_of(uptime') = uptime_of(uptime)
            /\ uptime_as_string(uptime') = uptime_as_string(uptime)
       /\ (load_call' = "update" /\ load_result' # "ok") =>
            /\ load_average_of(load_average') = load_average_of(load_average)
            /\ load_average_as_string(load_average')
                    = load_average_as_string(load_average)]_vars

C30_Witness ==
    /\ uptime_call = "update"
    /\ uptime_result = "SystemInfoError"
    /\ uptime = 7
    /\ load_call = "update"
    /\ load_result = "OSError"
    /\ load_average = <<Ratio(1, 1), Ratio(1, 2), Ratio(1, 1)>>

-----------------------------------------------------------------------------
(* Properties of the class attributes of Process, checked under SpecShared *)

\* C29: an update() of a record that returns computes memory_usage from the
\* total memory passed to the constructor of its controller and takes its
\* observation time from the Uptime object passed to that constructor.
C29_OwnSources ==
    [][(process_vars' # process_vars /\ proc_raised' = "no") =>
            /\ proc'.memory_usage = Round1(100 * proc'.resident_memory, own_memory)
            /\ proc'._uptime_old = Some(own_uptime)]_vars
====
